---- MODULE Spec2Model ----
(***************************************************************************)
(* Realtime voice session bridge (Plivo <-> OpenAI realtime endpoint).     *)
(*                                                                         *)
(* Spec models the gated bridge of src/app.py: the module globals, the     *)
(* ResponseControl object, the coordinator media_stream and its two pumps  *)
(* handle_plivo_messages and handle_openai_messages, with one step per     *)
(* stretch of code between two suspension points.                          *)
(*                                                                         *)
(* SpecMainn models the tool-calling bridge of src/app/mainn.py: the loop  *)
(* of handle_message over receive_from_openai, and receive_from_plivo.     *)
(*                                                                         *)
(* Text is a sequence of tokens: a token is either the whitespace token    *)
(* " " or a run of non-whitespace characters, so that str.strip() and      *)
(* string concatenation are computed as Python computes them.              *)
(***************************************************************************)
EXTENDS Integers, Sequences, FiniteSets, TLC

\* ------------------------------------------------------------------ bounds
MaxInputs == 5      \* events and frames read by the two pumps that change the state
MaxSessions == 2    \* calls served one after the other by the process
MaxCallInputs == 3  \* events and frames of one call of src/app/mainn.py that make it send

\* ------------------------------------------------------- program constants
timeout == 5        \* asyncio.wait_for(..., timeout=5.0)

\* --------------------------------------------------------------- text model
IsSpace(t) == t = " "

RECURSIVE LStrip(_)
LStrip(s) == IF s = << >> THEN << >>
             ELSE IF IsSpace(Head(s)) THEN LStrip(Tail(s)) ELSE s

RECURSIVE RStrip(_)
RStrip(s) == IF s = << >> THEN << >>
             ELSE IF IsSpace(s[Len(s)]) THEN RStrip(SubSeq(s, 1, Len(s) - 1)) ELSE s

\* str.strip()
Strip(s) == RStrip(LStrip(s))

\* Python values that the handler tests for truthiness: None or a str
NoneV == [kind |-> "None", text |-> << >>]
Str(s) == [kind |-> "str", text |-> s]
Truthy(v) == v.kind = "str" /\ v.text # << >>

\* ------------------------------------------------------------ input alphabet
\* values of response['delta']['text'] in a transcript delta event
Chunks == { << >>, <<" ">>, <<"what">>, <<" ", "is">> }

\* values of response['delta'] in an audio delta event: canonical base64,
\* base64 with a character outside the alphabet, base64 with bad padding
Payloads == { "QUJD", "QUJD\n", "QUJ" }

\* values of data['media']['payload'] in a media frame of the transport
MediaPayloads == { "QUJD" }

\* the endpoint's responses, one per turn
Rids == 1..2

\* stream ids carried by the transport's start frame
StreamIds == { "s1", "s2" }

\* what the external services do during one process_user_query
Outcomes == { "embed_fail", "no_text", "answer_fail", "answer_empty",
              "answer_ok", "hang" }

NoEvent == [type |-> "none", delta |-> "", rid |-> 0]

\* ------------------------------------------------------------ pure functions
RECURSIVE Words(_)
\* the text made of the given words separated by single spaces
Words(ws) == IF Len(ws) <= 1 THEN ws
             ELSE <<Head(ws), " ">> \o Words(Tail(ws))

EmbedFailText == Words(<<"I'm", "having", "trouble", "understanding", "your", "request.">>)
NoMatchText == Words(<<"I", "couldn't", "find", "any", "product", "information", "about", "that.">>)
NoContextText == Words(<<"I", "found", "some", "matches", "but", "couldn't", "extract", "useful", "information.">>)
AnswerText == <<"$9.86">>

\* generate_answer_with_gemini: response.text, or None when the call raises
generate_answer_with_gemini(outcome) ==
    IF outcome = "answer_fail" THEN NoneV
    ELSE IF outcome = "answer_empty" THEN Str(<< >>)
    ELSE Str(AnswerText)

\* process_user_query: the value returned, or raised = TRUE when the
\* coroutine ends with an exception (answer[:100] on None is a TypeError)
process_user_query(query, outcome) ==
    IF query = << >> \/ Strip(query) = << >>
    THEN [raised |-> FALSE, value |-> NoneV]
    ELSE IF outcome = "embed_fail"
    THEN [raised |-> FALSE, value |-> Str(EmbedFailText)]
    ELSE IF outcome = "search_none"
    THEN [raised |-> FALSE, value |-> Str(NoMatchText)]
    ELSE IF outcome = "no_text"
    THEN [raised |-> FALSE, value |-> Str(NoContextText)]
    ELSE LET answer == generate_answer_with_gemini(outcome)
         IN IF answer.kind = "None"
            THEN [raised |-> TRUE, value |-> NoneV]
            ELSE [raised |-> FALSE, value |-> answer]

\* base64.b64encode(base64.b64decode(p)): characters outside the alphabet
\* are discarded by the decoder, wrong padding raises binascii.Error
Reencode(p) ==
    IF p = "QUJ" THEN [raised |-> TRUE, value |-> ""]
    ELSE IF p = "QUJD\n" THEN [raised |-> FALSE, value |-> "QUJD"]
    ELSE [raised |-> FALSE, value |-> p]

\* ---------------------------------------------------- messages on the wire
\* every message is [type, flag, text]: flag carries "paused", text a payload
Msg(type, flag, text) == [type |-> type, flag |-> flag, text |-> text]

SessionUpdate == Msg("session.update", FALSE, << >>)
WaitInstruction == Msg("message", FALSE, <<"wait">>)
PauseCmd == Msg("input_audio_buffer.paused", TRUE, << >>)
ResumeCmd == Msg("input_audio_buffer.paused", FALSE, << >>)
ReadyMessage == Msg("message", FALSE, <<"ready">>)
\* mutant: the context message is built without the lookup result
ContextUpdate_NoResult(info) ==
    Msg("assistant.context.update", FALSE, <<"PRODUCT", " ", "INFORMATION:", " ">>)

ContextUpdate(info) ==
    Msg("assistant.context.update", FALSE,
        <<"PRODUCT", " ", "INFORMATION:", " ">> \o info)
AudioAppend(p) == Msg("input_audio_buffer.append", FALSE, <<p>>)
\* frames to the transport; a playAudio frame is tagged with the response
\* its audio belongs to
PlayAudio(p, r) == [event |-> "playAudio", payload |-> p, rid |-> r, stream_id |-> ""]
ClearAudio(sid) == [event |-> "clearAudio", payload |-> "", rid |-> 0, stream_id |-> sid]
CancelResponse == Msg("response.cancel", FALSE, << >>)

\* ---------------------------------------------------------------- the state
VARIABLES
    current_transcript,     \* app.py:60
    speech_in_progress,     \* app.py:61
    openai_responding,      \* app.py:62
    pending_pinecone_query, \* app.py:63
    can_respond,            \* response_control.can_respond
    processing_complete,    \* response_control.processing_complete (Event)
    context_updated,        \* response_control.context_updated
    mpc,                    \* media_stream: "none", "run", "ended"
    hpc,                    \* handle_openai_messages: position in the loop
    ppc,                    \* handle_plivo_messages: "recv" or "done"
    oend,                   \* how handle_openai_messages ended
    pend,                   \* how handle_plivo_messages ended
    openai_open,            \* openai_ws.open
    stream_id,              \* plivo_ws.stream_id
    toOpenAI,               \* messages sent on openai_ws, in order
    toPlivo,                \* frames sent on plivo_ws, in order
    fromPlivo,              \* media frames read from plivo_ws, in order, each with
                            \* openai_ws.open as it was when the frame was handled
    cur,                    \* the audio delta event being handled
    call,                   \* the process_user_query invocation in flight
    product_info,           \* local of the speech_ended branch
    timer,                  \* seconds spent so far in the current wait or lookup
    nin, nsess,             \* inputs read and sessions started so far
    \* src/app/mainn.py, one call
    m_pc,                   \* handle_message: position in the async for loop
    m_ppc,                  \* receive_from_plivo: "none", "recv"
    m_open,                 \* openai_ws.open
    m_stream_id,            \* plivo_ws.stream_id, "unset" before the start frame
    m_toOpenAI,             \* messages sent on openai_ws, in order
    m_toPlivo,              \* frames sent on plivo_ws, in order
    m_nin,                  \* inputs read so far
    m_uuid,                 \* call_uuid of the call, "none" before it connects
    m_pend,                 \* how receive_from_plivo ended
    m_close,                \* how openai_ws was closed: "none", "ok", "error"
    m_plivo_open,           \* the transport's connection is up
    call_data,              \* mainn.py:61, the registry of calls
    m_teardowns,            \* what each after_call_hangup of the call did, in order
    \* src/app.py, a second call served at the same time
    o_pc,                   \* its media_stream: "none", "run", "ended"
    \* src/app/google_calender.py
    k_pc,                   \* the handler being run and its position
    k_now,                  \* datetime.now(IST), in minutes
    k_cal,                  \* the events of the primary calendar
    k_busy,                 \* busy_slots of get_available_slots_handler
    k_start, k_end,         \* start and end of get_available_slots_handler
    k_current,              \* current of the slot loop
    k_slots,                \* slots of get_available_slots_handler
    k_book                  \* the call of book_slot_handler made and its result

globals == <<current_transcript, speech_in_progress, openai_responding,
             pending_pinecone_query, can_respond, processing_complete,
             context_updated>>
conn == <<openai_open, stream_id, toOpenAI, toPlivo, fromPlivo>>
local == <<cur, call, product_info, timer>>
ctl == <<mpc, hpc, ppc, oend, pend>>
counts == <<nin, nsess>>
vars == <<globals, conn, local, ctl, counts>>
mconn == <<m_open, m_close, m_plivo_open, m_stream_id>>
mvars == <<m_pc, m_ppc, m_pend, mconn, m_toOpenAI, m_toPlivo, m_nin, m_uuid,
           call_data, m_teardowns>>
ovars == <<o_pc>>
kvars == <<k_pc, k_now, k_cal, k_busy, k_start, k_end, k_current, k_slots, k_book>>
allvars == <<vars, mvars, ovars, kvars>>

NoCall == [query |-> << >>, outcome |-> "none"]

AppInit ==
    /\ current_transcript = << >>
    /\ speech_in_progress = FALSE
    /\ openai_responding = FALSE
    /\ pending_pinecone_query = FALSE
    /\ can_respond = FALSE
    /\ processing_complete = FALSE
    /\ context_updated = FALSE
    /\ mpc = "none" /\ hpc = "done" /\ ppc = "done"
    /\ oend = "none" /\ pend = "none"
    /\ openai_open = FALSE
    /\ stream_id = "unset"
    /\ toOpenAI = << >> /\ toPlivo = << >> /\ fromPlivo = << >>
    /\ cur = NoEvent /\ call = NoCall /\ product_info = NoneV
    /\ timer = 0
    /\ nin = 0 /\ nsess = 0

\* call uuids given by the webhook
CallUUIDs == { "u1" }

\* no entry of call_data under a key, and the entry created for a call
NoEntry == [present |-> FALSE, transcriptions |-> {}, function_calls |-> << >>,
            assistant_responses |-> << >>, appointments |-> << >>]
NewEntry == [present |-> TRUE, transcriptions |-> {}, function_calls |-> << >>,
             assistant_responses |-> << >>, appointments |-> << >>]

MainnInit ==
    /\ m_pc = "none" /\ m_ppc = "none" /\ m_pend = "none"
    /\ m_open = FALSE /\ m_close = "none" /\ m_plivo_open = FALSE
    /\ m_stream_id = "unset"
    /\ m_toOpenAI = << >> /\ m_toPlivo = << >>
    /\ m_nin = 0
    /\ m_uuid = "none"
    /\ call_data = [u \in CallUUIDs |-> NoEntry]
    /\ m_teardowns = << >>

OtherInit == o_pc = "none"

\* no handler of google_calender.py has been called
NoBooking == [called |-> FALSE]
CalendarIdle ==
    /\ k_pc = "idle"
    /\ k_busy = {}
    /\ k_start = 0 /\ k_end = 0 /\ k_current = 0
    /\ k_slots = << >>
    /\ k_book = NoBooking
CalendarInit ==
    /\ CalendarIdle
    /\ k_now = 0
    /\ k_cal = {}

Init == AppInit /\ MainnInit /\ OtherInit /\ CalendarInit

\* the event loop runs other tasks only while no task is inside a blocking
\* call: the services called by process_user_query are synchronous
LoopFree == hpc # "lookup"

\* ------------------------------------------------------------- media_stream
\* mutant: the pumps are created before anything is sent to the endpoint
StartSession_PumpsFirst ==
    /\ mpc \in {"none", "ended"} /\ nsess < MaxSessions
    /\ nsess' = nsess + 1
    /\ mpc' = "run" /\ hpc' = "idle" /\ ppc' = "recv"
    /\ oend' = "none" /\ pend' = "none"
    /\ openai_open' = TRUE
    /\ stream_id' = "unset"
    /\ toOpenAI' = << >>
    /\ toPlivo' = << >> /\ fromPlivo' = << >>
    /\ cur' = NoEvent /\ call' = NoCall /\ product_info' = NoneV /\ timer' = 0
    /\ UNCHANGED <<globals, nin>>

\* websockets.connect succeeds, the two initial messages are sent and both
\* pumps are created; the module globals keep what the last call left
StartSession ==
    /\ mpc \in {"none", "ended"} /\ nsess < MaxSessions
    /\ nsess' = nsess + 1
    /\ mpc' = "run" /\ hpc' = "idle" /\ ppc' = "recv"
    /\ oend' = "none" /\ pend' = "none"
    /\ openai_open' = TRUE
    /\ stream_id' = "unset"
    /\ toOpenAI' = <<SessionUpdate, WaitInstruction>>
    /\ toPlivo' = << >> /\ fromPlivo' = << >>
    /\ cur' = NoEvent /\ call' = NoCall /\ product_info' = NoneV /\ timer' = 0
    /\ UNCHANGED <<globals, nin>>

\* the "Reset state" block of the finally clause
ResetState ==
    /\ current_transcript' = << >>
    /\ speech_in_progress' = FALSE
    /\ can_respond' = FALSE
    /\ context_updated' = FALSE
    /\ UNCHANGED <<openai_responding, pending_pinecone_query, processing_complete>>

\* websockets.connect raises: except, then finally
ConnectFails ==
    /\ mpc \in {"none", "ended"} /\ nsess < MaxSessions
    /\ nsess' = nsess + 1
    /\ mpc' = "ended"
    /\ ResetState
    /\ UNCHANGED <<conn, local, hpc, ppc, oend, pend, nin>>

\* asyncio.wait returns once a pump is done: the pending pump is cancelled,
\* leaving the async with block closes openai_ws, finally resets the state
Teardown ==
    /\ mpc = "run" /\ LoopFree
    /\ hpc = "done" \/ ppc = "done"
    /\ mpc' = "ended"
    /\ hpc' = "done" /\ oend' = IF hpc = "done" THEN oend ELSE "cancelled"
    /\ ppc' = "done" /\ pend' = IF ppc = "done" THEN pend ELSE "cancelled"
    /\ openai_open' = FALSE
    /\ ResetState
    /\ cur' = NoEvent /\ timer' = 0
    /\ UNCHANGED <<stream_id, fromPlivo, toOpenAI, toPlivo, call, product_info, counts>>

\* the endpoint closes its side of the connection
EndpointCloses ==
    /\ mpc = "run" /\ openai_open /\ LoopFree
    /\ openai_open' = FALSE
    /\ UNCHANGED <<globals, stream_id, fromPlivo, toOpenAI, toPlivo, local, ctl, counts>>

\* ---------------------------------------------------- handle_plivo_messages
PlivoReady == mpc = "run" /\ ppc = "recv" /\ LoopFree

\* mutant: the media frame is forwarded whatever openai_ws.open says
PlivoMedia_Always(p) ==
    /\ PlivoReady
    /\ nin < MaxInputs
    /\ nin' = nin + 1
    /\ fromPlivo' = Append(fromPlivo, [payload |-> p, open |-> openai_open])
    /\ toOpenAI' = Append(toOpenAI, AudioAppend(p))
    /\ UNCHANGED <<globals, openai_open, stream_id, toPlivo, local, ctl, nsess>>

PlivoMedia(p) ==
    /\ PlivoReady
    /\ nin < MaxInputs
    /\ nin' = nin + 1
    /\ fromPlivo' = Append(fromPlivo, [payload |-> p, open |-> openai_open])
    /\ toOpenAI' = IF openai_open THEN Append(toOpenAI, AudioAppend(p)) ELSE toOpenAI
    /\ UNCHANGED <<globals, openai_open, stream_id, toPlivo, local, ctl, nsess>>

PlivoStart(sid) ==
    /\ PlivoReady
    /\ nin < MaxInputs
    /\ nin' = nin + 1
    /\ stream_id' = sid
    /\ UNCHANGED <<globals, openai_open, toOpenAI, toPlivo, fromPlivo, local, ctl, nsess>>

\* a frame with another 'event' value matches no branch
PlivoOther ==
    /\ PlivoReady
    /\ UNCHANGED <<globals, conn, local, ctl, counts>>

\* json.loads or data['event'] raises: only ConnectionClosed is caught
PlivoMalformed ==
    /\ PlivoReady
    /\ nin < MaxInputs
    /\ nin' = nin + 1
    /\ ppc' = "done" /\ pend' = "exception"
    /\ UNCHANGED <<globals, conn, local, mpc, hpc, oend, nsess>>

\* --------------------------------------------------- handle_openai_messages
\* await openai_ws.send(m): on a closed connection ConnectionClosed is
\* raised and caught by the except clause, which ends the pump
SendOpenAI(m, next) ==
    IF openai_open
    THEN toOpenAI' = Append(toOpenAI, m) /\ hpc' = next /\ oend' = oend
    ELSE toOpenAI' = toOpenAI /\ hpc' = "done" /\ oend' = "closed"

OpenAIReady == mpc = "run" /\ hpc = "idle" /\ openai_open

\* the async for loop ends when the connection is closed
RecvClosed ==
    /\ mpc = "run" /\ hpc = "idle" /\ ~openai_open
    /\ hpc' = "done" /\ oend' = "closed"
    /\ UNCHANGED <<globals, conn, local, mpc, ppc, pend, counts>>

OnSessionUpdated ==
    /\ OpenAIReady
    /\ UNCHANGED <<globals, conn, local, ctl, counts>>

\* a type no branch matches, the error event included
OnOther ==
    /\ OpenAIReady
    /\ UNCHANGED <<globals, conn, local, ctl, counts>>

\* json.loads or response['type'] raises: except Exception ends the pump
OnMalformed ==
    /\ OpenAIReady
    /\ nin < MaxInputs
    /\ nin' = nin + 1
    /\ hpc' = "done" /\ oend' = "exception"
    /\ UNCHANGED <<globals, conn, local, mpc, ppc, pend, nsess>>

\* mutant: speech_started leaves the gate as it is
OnSpeechStarted_KeepsGate ==
    /\ mpc = "run" /\ hpc = "idle" /\ openai_open
    /\ nin < MaxInputs
    /\ nin' = nin + 1
    /\ speech_in_progress' = TRUE
    /\ current_transcript' = << >>
    /\ context_updated' = FALSE
    /\ processing_complete' = FALSE
    /\ UNCHANGED <<can_respond, openai_responding, pending_pinecone_query, conn, local, ctl, nsess>>

OnSpeechStarted ==
    /\ OpenAIReady
    /\ nin < MaxInputs
    /\ nin' = nin + 1
    /\ speech_in_progress' = TRUE
    /\ current_transcript' = << >>
    /\ can_respond' = FALSE
    /\ context_updated' = FALSE
    /\ processing_complete' = FALSE
    /\ UNCHANGED <<openai_responding, pending_pinecone_query, conn, local, ctl, nsess>>

\* mutant: the chunk is put in front of the buffer
AppendChunk_Prepends(transcript, chunk) ==
    IF chunk # << >> /\ Strip(chunk) # << >> THEN chunk \o transcript ELSE transcript

\* the text appended for one chunk
AppendChunk(transcript, chunk) ==
    IF chunk # << >> /\ Strip(chunk) # << >> THEN transcript \o chunk ELSE transcript

OnTranscriptDelta(chunk) ==
    /\ OpenAIReady
    /\ nin < MaxInputs
    /\ nin' = nin + 1
    /\ current_transcript' = AppendChunk(current_transcript, chunk)
    /\ UNCHANGED <<speech_in_progress, openai_responding, pending_pinecone_query,
                   can_respond, processing_complete, context_updated,
                   conn, local, ctl, nsess>>

\* mutant: the speech_ended branch sends the pause command and goes back to
\* the loop
OnSpeechEnded_Returns ==
    /\ OpenAIReady
    /\ nin < MaxInputs
    /\ nin' = nin + 1
    /\ speech_in_progress' = FALSE
    /\ SendOpenAI(PauseCmd, "idle")
    /\ UNCHANGED <<current_transcript, openai_responding, pending_pinecone_query,
                   can_respond, processing_complete, context_updated,
                   openai_open, stream_id, fromPlivo, toPlivo, local, mpc, ppc, pend, nsess>>

\* speech_ended, up to the await of the pause command
OnSpeechEnded ==
    /\ OpenAIReady
    /\ nin < MaxInputs
    /\ nin' = nin + 1
    /\ speech_in_progress' = FALSE
    /\ SendOpenAI(PauseCmd, "post_pause")
    /\ UNCHANGED <<current_transcript, openai_responding, pending_pinecone_query,
                   can_respond, processing_complete, context_updated,
                   openai_open, stream_id, fromPlivo, toPlivo, local, mpc, ppc, pend, nsess>>

\* mutant: the lookup is entered whatever the transcript holds
AfterPause_AlwaysLooksUp ==
    /\ mpc = "run" /\ hpc = "post_pause"
    /\ pending_pinecone_query' = TRUE
    /\ \E o \in Outcomes :
           call' = [query |-> Strip(current_transcript), outcome |-> o]
    /\ timer' = 0
    /\ hpc' = "lookup"
    /\ UNCHANGED <<toOpenAI, oend>>
    /\ UNCHANGED <<current_transcript, speech_in_progress, openai_responding,
                   can_respond, processing_complete, context_updated,
                   openai_open, stream_id, fromPlivo, toPlivo, cur, product_info,
                   mpc, ppc, pend, counts>>

\* after the pause: the lookup is entered, or skipped for an empty transcript
AfterPause ==
    /\ mpc = "run" /\ hpc = "post_pause"
    /\ IF current_transcript # << >> /\ Strip(current_transcript) # << >>
       THEN /\ pending_pinecone_query' = TRUE
            /\ \E o \in Outcomes :
                   call' = [query |-> Strip(current_transcript), outcome |-> o]
            /\ timer' = 0
            /\ hpc' = "lookup"
            /\ UNCHANGED <<toOpenAI, oend>>
       ELSE /\ SendOpenAI(ResumeCmd, "post_resume")
            /\ UNCHANGED <<pending_pinecone_query, call, timer>>
    /\ UNCHANGED <<current_transcript, speech_in_progress, openai_responding,
                   can_respond, processing_complete, context_updated,
                   openai_open, stream_id, fromPlivo, toPlivo, cur, product_info,
                   mpc, ppc, pend, counts>>

\* time passes, in steps of the deadline, while the pump is inside the lookup
\* or inside wait_for
Tick ==
    /\ mpc = "run"
    /\ \/ hpc = "lookup" /\ timer <= timeout
       \/ hpc = "wait" /\ timer < timeout
    /\ timer' = timer + timeout
    /\ UNCHANGED <<globals, conn, cur, call, product_info, ctl, counts>>

\* process_user_query returns or raises
LookupReturns ==
    /\ mpc = "run" /\ hpc = "lookup" /\ call.outcome # "hang"
    /\ timer' = 0
    /\ LET r == process_user_query(call.query, call.outcome)
       IN IF r.raised
          THEN /\ hpc' = "done" /\ oend' = "exception"
               /\ UNCHANGED <<toOpenAI, pending_pinecone_query, call, product_info>>
          ELSE /\ call' = NoCall
               /\ product_info' = r.value
               /\ IF Truthy(r.value)
                  THEN /\ SendOpenAI(ContextUpdate(r.value.text), "post_ctx")
                       /\ UNCHANGED pending_pinecone_query
                  ELSE /\ pending_pinecone_query' = FALSE
                       /\ SendOpenAI(ResumeCmd, "post_resume")
    /\ UNCHANGED <<current_transcript, speech_in_progress, openai_responding,
                   can_respond, processing_complete, context_updated,
                   openai_open, stream_id, fromPlivo, toPlivo, cur,
                   mpc, ppc, pend, counts>>

\* after the context message: flags, then the resume command
AfterContext ==
    /\ mpc = "run" /\ hpc = "post_ctx"
    /\ context_updated' = TRUE
    /\ pending_pinecone_query' = FALSE
    /\ SendOpenAI(ResumeCmd, "post_resume")
    /\ UNCHANGED <<current_transcript, speech_in_progress, openai_responding,
                   can_respond, processing_complete,
                   openai_open, stream_id, fromPlivo, toPlivo, local, mpc, ppc, pend, counts>>

\* after the resume: the gate is opened, the event set, the transcript reset
AfterResume ==
    /\ mpc = "run" /\ hpc = "post_resume"
    /\ can_respond' = TRUE
    /\ processing_complete' = TRUE
    /\ current_transcript' = << >>
    /\ SendOpenAI(ReadyMessage, "idle")
    /\ product_info' = NoneV
    /\ UNCHANGED <<speech_in_progress, openai_responding, pending_pinecone_query,
                   context_updated, openai_open, stream_id, fromPlivo, toPlivo,
                   cur, call, timer, mpc, ppc, pend, counts>>

\* mutant: the frame is put in front of the frames already sent
Forward_Prepends(e) ==
    /\ openai_responding' = TRUE
    /\ LET b == Reencode(e.delta)
       IN IF b.raised
          THEN hpc' = "done" /\ oend' = "exception" /\ toPlivo' = toPlivo
          ELSE hpc' = "idle" /\ oend' = oend
               /\ toPlivo' = <<PlayAudio(b.value, e.rid)>> \o toPlivo
    /\ cur' = NoEvent /\ timer' = 0

\* lines 429-440: the frame is built and sent to the transport
Forward(e) ==
    /\ openai_responding' = TRUE
    /\ LET b == Reencode(e.delta)
       IN IF b.raised
          THEN hpc' = "done" /\ oend' = "exception" /\ toPlivo' = toPlivo
          ELSE hpc' = "idle" /\ oend' = oend
               /\ toPlivo' = Append(toPlivo, PlayAudio(b.value, e.rid))
    /\ cur' = NoEvent /\ timer' = 0

\* mutant: the first audio delta of a turn is forwarded without any wait
OnAudioDelta_NoWait(p, r) ==
    /\ OpenAIReady
    /\ nin < MaxInputs
    /\ nin' = nin + 1
    /\ Forward([type |-> "response.audio.delta", delta |-> p, rid |-> r])
    /\ UNCHANGED <<current_transcript, speech_in_progress, pending_pinecone_query,
                   can_respond, processing_complete, context_updated,
                   openai_open, stream_id, fromPlivo, toOpenAI, call, product_info,
                   mpc, ppc, pend, nsess>>

OnAudioDelta(p, r) ==
    /\ OpenAIReady
    /\ nin < MaxInputs
    /\ nin' = nin + 1
    /\ LET e == [type |-> "response.audio.delta", delta |-> p, rid |-> r]
       IN IF ~openai_responding /\ ~processing_complete
          THEN /\ hpc' = "wait" /\ cur' = e /\ timer' = 0
               /\ UNCHANGED <<openai_responding, toPlivo, oend>>
          ELSE Forward(e)
    /\ UNCHANGED <<current_transcript, speech_in_progress, pending_pinecone_query,
                   can_respond, processing_complete, context_updated,
                   openai_open, stream_id, fromPlivo, toOpenAI, call, product_info,
                   mpc, ppc, pend, nsess>>

\* mutant: wait_for returns at once, whatever the event and the clock say
WaitDone_Early ==
    /\ mpc = "run" /\ hpc = "wait"
    /\ Forward(cur)
    /\ UNCHANGED <<current_transcript, speech_in_progress, pending_pinecone_query,
                   can_respond, processing_complete, context_updated,
                   openai_open, stream_id, fromPlivo, toOpenAI, call, product_info,
                   mpc, ppc, pend, counts>>

\* wait_for returns: the event is set, or the timeout has expired
WaitDone ==
    /\ mpc = "run" /\ hpc = "wait"
    /\ processing_complete \/ timer = timeout
    /\ Forward(cur)
    /\ UNCHANGED <<current_transcript, speech_in_progress, pending_pinecone_query,
                   can_respond, processing_complete, context_updated,
                   openai_open, stream_id, fromPlivo, toOpenAI, call, product_info,
                   mpc, ppc, pend, counts>>

\* mutant: response.complete leaves the gate as it is
OnResponseComplete_KeepsGate ==
    /\ OpenAIReady
    /\ nin < MaxInputs
    /\ nin' = nin + 1
    /\ openai_responding' = FALSE
    /\ UNCHANGED <<current_transcript, speech_in_progress, pending_pinecone_query,
                   can_respond, processing_complete, context_updated, conn, local,
                   ctl, nsess>>

OnResponseComplete ==
    /\ OpenAIReady
    /\ nin < MaxInputs
    /\ nin' = nin + 1
    /\ openai_responding' = FALSE
    /\ can_respond' = FALSE
    /\ UNCHANGED <<current_transcript, speech_in_progress, pending_pinecone_query,
                   processing_complete, context_updated, conn, local, ctl, nsess>>

\* ============================================================ src/app/mainn.py
\* what the summary services do during one after_call_hangup:
\* generate_inquiry_invoice raises, the upload or the WhatsApp send raises,
\* or both succeed
InvoiceOutcomes == { "ok", "invoice_fail", "send_fail" }

\* the tools named by a function call request, and a name no branch matches;
\* get_available_slots and check_slot_availability record in function_calls
\* and answer as search_product_database does
ToolNames == { "search_product_database", "book_appointment", "other_tool" }

\* values of response['call_id']
CallIds == { "c1", "c2" }

\* response['arguments']: an object with the keys the tool reads, an object
\* without them, text that is not JSON
Arguments == { "complete", "no_keys", "not_json" }

\* values of item_id in the transcription events
ItemIds == { "i1" }

\* function_call_output: the item carries the call_id of the request
ToolOutput(cid) == Msg("conversation.item.create", FALSE, <<cid>>)
ResponseCreate == Msg("response.create", FALSE, << >>)

\* mutant: the entry of the call is kept after the summary has been sent
after_call_hangup_KeepsEntry(cd, u, inv) ==
    IF ~cd[u].present
    THEN [raised |-> FALSE, call_data |-> cd, did |-> "no_call_data"]
    ELSE IF /\ cd[u].transcriptions = {}
            /\ cd[u].function_calls = << >>
            /\ cd[u].assistant_responses = << >>
    THEN [raised |-> FALSE, call_data |-> [cd EXCEPT ![u] = NoEntry],
          did |-> "no_conversation"]
    ELSE IF inv = "invoice_fail"
    THEN [raised |-> TRUE, call_data |-> cd, did |-> "raised"]
    ELSE [raised |-> FALSE, call_data |-> cd,
          did |-> IF inv = "send_fail" THEN "send_failed" ELSE "summary_sent"]

\* after_call_hangup(call_uuid) on registry cd: the registry it leaves,
\* whether it raised, and what it did
after_call_hangup(cd, u, inv) ==
    IF ~cd[u].present
    THEN [raised |-> FALSE, call_data |-> cd, did |-> "no_call_data"]
    ELSE IF /\ cd[u].transcriptions = {}
            /\ cd[u].function_calls = << >>
            /\ cd[u].assistant_responses = << >>
    THEN [raised |-> FALSE, call_data |-> [cd EXCEPT ![u] = NoEntry],
          did |-> "no_conversation"]
    ELSE IF inv = "invoice_fail"
    THEN [raised |-> TRUE, call_data |-> cd, did |-> "raised"]
    ELSE [raised |-> FALSE, call_data |-> [cd EXCEPT ![u] = NoEntry],
          did |-> IF inv = "send_fail" THEN "send_failed" ELSE "summary_sent"]

\* one invocation of after_call_hangup for the call, logged
Hangup(r) ==
    /\ call_data' = r.call_data
    /\ m_teardowns' = Append(m_teardowns, r.did)

\* the webhook: the entry of the call is created, or replaced
home(u) ==
    /\ u # m_uuid
    /\ call_data[u] # NewEntry
    /\ call_data' = [call_data EXCEPT ![u] = NewEntry]
    /\ UNCHANGED <<m_pc, m_ppc, m_pend, mconn, m_toOpenAI, m_toPlivo, m_nin,
                   m_uuid, m_teardowns>>

\* handle_message: the entry is created if the webhook did not, the endpoint
\* is connected, send_session_update is awaited and receive_from_plivo is
\* started as a task
MainnConnect(u) ==
    /\ m_pc = "none"
    /\ m_uuid' = u
    /\ call_data' = IF call_data[u].present THEN call_data
                    ELSE [call_data EXCEPT ![u] = NewEntry]
    /\ m_pc' = "loop" /\ m_ppc' = "recv"
    /\ m_open' = TRUE /\ m_plivo_open' = TRUE
    /\ m_toOpenAI' = <<SessionUpdate>>
    /\ UNCHANGED <<m_pend, m_close, m_stream_id, m_toPlivo, m_nin, m_teardowns>>

\* websockets.connect raises: except Exception, after_call_hangup
MainnConnectFails(u) ==
    /\ m_pc = "none"
    /\ m_uuid' = u
    /\ m_pc' = "ended"
    /\ LET cd == IF call_data[u].present THEN call_data
                 ELSE [call_data EXCEPT ![u] = NewEntry]
       IN \E inv \in InvoiceOutcomes : Hangup(after_call_hangup(cd, u, inv))
    /\ UNCHANGED <<m_ppc, m_pend, mconn, m_toOpenAI, m_toPlivo, m_nin>>

\* the endpoint closes the connection, with a close frame or without
MainnEndpointCloses(how) ==
    /\ m_pc \notin {"none", "ended"} /\ m_open
    /\ m_open' = FALSE /\ m_close' = how
    /\ UNCHANGED <<m_pc, m_ppc, m_pend, m_plivo_open, m_stream_id, m_toOpenAI,
                   m_toPlivo, m_nin, m_uuid, call_data, m_teardowns>>

\* the caller's side of the transport goes away
MainnTransportCloses ==
    /\ m_pc \notin {"none", "ended"} /\ m_plivo_open
    /\ m_plivo_open' = FALSE
    /\ UNCHANGED <<m_pc, m_ppc, m_pend, m_open, m_close, m_stream_id,
                   m_toOpenAI, m_toPlivo, m_nin, m_uuid, call_data, m_teardowns>>

\* the async for loop of handle_message ends with the connection: after a
\* normal closure the loop is left and receive_task is awaited, after an
\* abnormal one ConnectionClosed is raised and after_call_hangup runs
MainnRecvClosed ==
    /\ m_pc = "loop" /\ ~m_open
    /\ IF m_close = "error"
       THEN /\ m_pc' = "ended"
            /\ \E inv \in InvoiceOutcomes :
                   Hangup(after_call_hangup(call_data, m_uuid, inv))
       ELSE /\ m_pc' = "await_task"
            /\ UNCHANGED <<call_data, m_teardowns>>
    /\ UNCHANGED <<m_ppc, m_pend, mconn, m_toOpenAI, m_toPlivo, m_nin, m_uuid>>

\* await receive_task returns once receive_from_plivo is done; the exception
\* the task ended with is raised here: except Exception, after_call_hangup
MainnJoin ==
    /\ m_pc = "await_task" /\ m_ppc = "done"
    /\ m_pc' = "ended"
    /\ IF m_pend = "exception"
       THEN \E inv \in InvoiceOutcomes :
                Hangup(after_call_hangup(call_data, m_uuid, inv))
       ELSE UNCHANGED <<call_data, m_teardowns>>
    /\ UNCHANGED <<m_ppc, m_pend, mconn, m_toOpenAI, m_toPlivo, m_nin, m_uuid>>

\* the client has disconnected: the handler is cancelled at its await, the
\* async with block closes openai_ws, except CancelledError runs
\* after_call_hangup; receive_task is cancelled only if it is being awaited
MainnCancelled ==
    /\ m_pc \in {"loop", "clear_sent", "tool_out_sent", "await_task"}
    /\ ~m_plivo_open
    /\ m_pc' = "ended"
    /\ m_open' = FALSE
    /\ m_close' = IF m_open THEN "ok" ELSE m_close
    /\ IF m_pc = "await_task" /\ m_ppc # "done"
       THEN m_ppc' = "done" /\ m_pend' = "cancelled"
       ELSE UNCHANGED <<m_ppc, m_pend>>
    /\ \E inv \in InvoiceOutcomes :
           Hangup(after_call_hangup(call_data, m_uuid, inv))
    /\ UNCHANGED <<m_plivo_open, m_stream_id, m_toOpenAI, m_toPlivo, m_nin, m_uuid>>

\* ---------------------------------------------------- receive_from_openai
\* handle_message hands the next message of the endpoint to
\* receive_from_openai
MainnReady == m_pc = "loop" /\ m_open

\* response.audio.delta: an exception of the re-encoding or of the send to
\* a transport that has gone away is caught and printed, the loop goes on
MainnAudioDelta(p, r) ==
    /\ MainnReady
    /\ m_nin < MaxCallInputs
    /\ m_nin' = m_nin + 1
    /\ LET b == Reencode(p)
       IN m_toPlivo' = IF b.raised \/ ~m_plivo_open THEN m_toPlivo
                       ELSE Append(m_toPlivo, PlayAudio(b.value, r))
    /\ UNCHANGED <<m_pc, m_ppc, m_pend, mconn, m_toOpenAI, m_uuid,
                   call_data, m_teardowns>>

\* speech_started, up to the await of the clearAudio frame: reading
\* plivo_ws.stream_id before the start frame has set it raises
\* AttributeError, which is caught and printed, as is a failed send
MainnSpeechStarted ==
    /\ MainnReady
    /\ m_nin < MaxCallInputs
    /\ m_nin' = m_nin + 1
    /\ IF m_stream_id = "unset" \/ ~m_plivo_open
       THEN UNCHANGED <<m_toPlivo, m_pc>>
       ELSE /\ m_toPlivo' = Append(m_toPlivo, ClearAudio(m_stream_id))
            /\ m_pc' = "clear_sent"
    /\ UNCHANGED <<m_ppc, m_pend, mconn, m_toOpenAI, m_uuid, call_data, m_teardowns>>

\* speech_started, after the clearAudio frame: response.cancel is sent; on a
\* closed connection the exception is caught and printed
MainnAfterClear ==
    /\ m_pc = "clear_sent"
    /\ m_toOpenAI' = IF m_open THEN Append(m_toOpenAI, CancelResponse) ELSE m_toOpenAI
    /\ m_pc' = "loop"
    /\ UNCHANGED <<m_ppc, m_pend, mconn, m_toPlivo, m_nin, m_uuid, call_data, m_teardowns>>

\* session.updated and any event no branch matches
MainnOther ==
    /\ MainnReady
    /\ UNCHANGED mvars

\* the error event: it is printed
MainnError ==
    /\ MainnReady
    /\ m_nin < MaxCallInputs
    /\ m_nin' = m_nin + 1
    /\ UNCHANGED <<m_pc, m_ppc, m_pend, mconn, m_toOpenAI, m_toPlivo, m_uuid,
                   call_data, m_teardowns>>

\* a message that is not JSON or has no 'type': json.loads or the subscript
\* raises, except Exception prints it
MainnMalformed ==
    /\ MainnReady
    /\ m_nin < MaxCallInputs
    /\ m_nin' = m_nin + 1
    /\ UNCHANGED <<m_pc, m_ppc, m_pend, mconn, m_toOpenAI, m_toPlivo, m_uuid,
                   call_data, m_teardowns>>

\* the tool raises before anything is sent: json.loads(response['arguments'])
\* or the subscript of a missing argument
ToolRaises(name, args) ==
    \/ args = "not_json"
    \/ /\ args = "no_keys"
       /\ name \in {"search_product_database", "book_appointment"}

\* the entry of the call after the tool call has been recorded in it
Recorded(e, name) ==
    IF ~e.present THEN e
    ELSE IF name = "book_appointment"
    THEN [e EXCEPT !.appointments = Append(@, name)]
    ELSE [e EXCEPT !.function_calls = Append(@, name)]

\* response.function_call_arguments.done, up to the await of the send of the
\* function_call_output item
MainnToolCall(name, cid, args) ==
    /\ MainnReady
    /\ m_nin < MaxCallInputs
    /\ m_nin' = m_nin + 1
    /\ IF ToolRaises(name, args) \/ name = "other_tool"
       THEN UNCHANGED <<m_pc, m_toOpenAI, call_data>>
       ELSE /\ call_data' = [call_data EXCEPT ![m_uuid] = Recorded(@, name)]
            /\ m_toOpenAI' = Append(m_toOpenAI, ToolOutput(cid))
            /\ m_pc' = "tool_out_sent"
    /\ UNCHANGED <<m_ppc, m_pend, mconn, m_toPlivo, m_uuid, m_teardowns>>

\* after the function_call_output item: response.create is sent; on a closed
\* connection the exception is caught and printed
MainnAfterToolOutput ==
    /\ m_pc = "tool_out_sent"
    /\ m_toOpenAI' = IF m_open THEN Append(m_toOpenAI, ResponseCreate) ELSE m_toOpenAI
    /\ m_pc' = "loop"
    /\ UNCHANGED <<m_ppc, m_pend, mconn, m_toPlivo, m_nin, m_uuid, call_data, m_teardowns>>

\* values of response['delta'] and of response['transcript'] in the
\* transcription events, as sequences of words
TranscriptDeltas == { <<"a">>, <<"b">> }
Transcripts == { <<"a", "b">> }

\* call_data[call_uuid]['transcriptions'] as the set of its items: the
\* record stored under an item id, if there is one
Stored(e, item) == { r \in e.transcriptions : r.item_id = item }

\* call_data[call_uuid]['transcriptions'][item_id] = {'text': ..., 'complete': ...}
Store(e, item, text, complete) ==
    [e EXCEPT !.transcriptions =
        { r \in @ : r.item_id # item }
            \cup { [item_id |-> item, text |-> text, complete |-> complete] }]

\* conversation.item.input_audio_transcription.delta: the first delta of an
\* item creates its record, incomplete; a later one is appended to the text
\* of the record, whatever its complete flag is
MainnTranscriptionDelta(item, d) ==
    /\ MainnReady
    /\ m_nin < MaxCallInputs
    /\ m_nin' = m_nin + 1
    /\ LET e == call_data[m_uuid]
       IN call_data' =
              IF ~e.present THEN call_data
              ELSE IF Stored(e, item) = {}
              THEN [call_data EXCEPT ![m_uuid] = Store(e, item, d, FALSE)]
              ELSE LET r == CHOOSE x \in Stored(e, item) : TRUE
                   IN [call_data EXCEPT ![m_uuid] =
                          Store(e, item, r.text \o d, r.complete)]
    /\ UNCHANGED <<m_pc, m_ppc, m_pend, mconn, m_toOpenAI, m_toPlivo, m_uuid,
                   m_teardowns>>

\* conversation.item.input_audio_transcription.completed: the transcript of
\* the item replaces what is stored under its id in the entry of the call
MainnTranscriptionCompleted(item) ==
    /\ MainnReady
    /\ m_nin' = m_nin
    /\ \E t \in Transcripts :
           call_data' = IF call_data[m_uuid].present
                        THEN [call_data EXCEPT ![m_uuid] = Store(@, item, t, TRUE)]
                        ELSE call_data
    /\ UNCHANGED <<m_pc, m_ppc, m_pend, mconn, m_toOpenAI, m_toPlivo, m_uuid,
                   m_teardowns>>

\* ------------------------------------------------------ receive_from_plivo
\* frames reach the pump while the transport is up and the handler is alive
MainnPlivoReady ==
    /\ m_ppc = "recv" /\ m_pc # "ended"
    /\ m_plivo_open

MainnPlivoMedia(p) ==
    /\ MainnPlivoReady
    /\ m_nin < MaxCallInputs
    /\ m_nin' = m_nin + 1
    /\ m_toOpenAI' = IF m_open THEN Append(m_toOpenAI, AudioAppend(p)) ELSE m_toOpenAI
    /\ UNCHANGED <<m_pc, m_ppc, m_pend, mconn, m_toPlivo, m_uuid, call_data, m_teardowns>>

\* the connection to the endpoint breaks under the send of a media frame:
\* except ConnectionClosed runs after_call_hangup and the pump returns; an
\* exception of after_call_hangup leaves the task with it
MainnPlivoMediaSendFails(p) ==
    /\ MainnPlivoReady /\ m_open
    /\ m_nin < MaxCallInputs
    /\ m_nin' = m_nin + 1
    /\ m_open' = FALSE /\ m_close' = "error"
    /\ m_ppc' = "done"
    /\ \E inv \in InvoiceOutcomes :
           LET r == after_call_hangup(call_data, m_uuid, inv)
           IN Hangup(r) /\ m_pend' = IF r.raised THEN "exception" ELSE "returned"
    /\ UNCHANGED <<m_pc, m_plivo_open, m_stream_id, m_toOpenAI, m_toPlivo, m_uuid>>

MainnPlivoStart(sid) ==
    /\ MainnPlivoReady
    /\ m_nin' = m_nin
    /\ m_stream_id' = sid
    /\ UNCHANGED <<m_pc, m_ppc, m_pend, m_open, m_close, m_plivo_open,
                   m_toOpenAI, m_toPlivo, m_uuid, call_data, m_teardowns>>

\* a frame with another 'event' value matches no branch
MainnPlivoOther ==
    /\ MainnPlivoReady
    /\ UNCHANGED mvars

\* except Exception of receive_from_plivo: after_call_hangup once more, then
\* the pump returns, or ends with the exception after_call_hangup raised
PlivoExcept(cd, log) ==
    /\ m_ppc' = "done"
    /\ \E inv \in InvoiceOutcomes :
           LET r == after_call_hangup(cd, m_uuid, inv)
           IN /\ call_data' = r.call_data
              /\ m_teardowns' = Append(log, r.did)
              /\ m_pend' = IF r.raised THEN "exception" ELSE "returned"

\* the hangup frame: after_call_hangup, then openai_ws is closed, and the
\* while loop goes on reading; an exception of after_call_hangup is caught by
\* except Exception
MainnPlivoHangup ==
    /\ MainnPlivoReady
    /\ m_nin < MaxCallInputs
    /\ m_nin' = m_nin + 1
    /\ \E inv \in InvoiceOutcomes :
           LET r == after_call_hangup(call_data, m_uuid, inv)
           IN IF r.raised
              THEN /\ PlivoExcept(r.call_data, Append(m_teardowns, r.did))
                   /\ UNCHANGED <<m_open, m_close>>
              ELSE /\ Hangup(r)
                   /\ m_open' = FALSE
                   /\ m_close' = IF m_open THEN "ok" ELSE m_close
                   /\ UNCHANGED <<m_ppc, m_pend>>
    /\ UNCHANGED <<m_pc, m_plivo_open, m_stream_id, m_toOpenAI, m_toPlivo, m_uuid>>

\* a frame that is not JSON or has no 'event': except Exception
MainnPlivoMalformed ==
    /\ MainnPlivoReady
    /\ m_nin' = m_nin
    /\ PlivoExcept(call_data, m_teardowns)
    /\ UNCHANGED <<m_pc, mconn, m_toOpenAI, m_toPlivo, m_uuid>>

\* ============================================== src/app.py, a second call
\* media_stream serves every connection of /media-stream in its own task, all
\* of them on the module globals of lines 59-73. The second call below has
\* its own connections, which the first never reads; of its endpoint's events
\* it is sent speech_started, transcript deltas and response.complete.
OtherLive == o_pc = "run" /\ LoopFree

\* a second call connects while the first is being served
OtherStart ==
    /\ o_pc = "none" /\ mpc = "run" /\ LoopFree
    /\ o_pc' = "run"
    /\ UNCHANGED <<vars, mvars>>

\* speech_started handled by the second call's handle_openai_messages
OtherSpeechStarted ==
    /\ OtherLive
    /\ nin < MaxInputs
    /\ nin' = nin + 1
    /\ speech_in_progress' = TRUE
    /\ current_transcript' = << >>
    /\ can_respond' = FALSE
    /\ context_updated' = FALSE
    /\ processing_complete' = FALSE
    /\ UNCHANGED <<openai_responding, pending_pinecone_query, conn, local, ctl,
                   nsess, mvars, o_pc>>

\* a transcript delta handled by the second call
OtherTranscriptDelta(chunk) ==
    /\ OtherLive
    /\ nin < MaxInputs
    /\ nin' = nin + 1
    /\ current_transcript' = AppendChunk(current_transcript, chunk)
    /\ UNCHANGED <<speech_in_progress, openai_responding, pending_pinecone_query,
                   can_respond, processing_complete, context_updated,
                   conn, local, ctl, nsess, mvars, o_pc>>

\* response.complete handled by the second call
OtherResponseComplete ==
    /\ OtherLive
    /\ nin < MaxInputs
    /\ nin' = nin + 1
    /\ openai_responding' = FALSE
    /\ can_respond' = FALSE
    /\ UNCHANGED <<current_transcript, speech_in_progress, pending_pinecone_query,
                   processing_complete, context_updated, conn, local, ctl,
                   nsess, mvars, o_pc>>

\* a pump of the second call ends: the finally clause of its media_stream
OtherTeardown ==
    /\ OtherLive
    /\ o_pc' = "ended"
    /\ ResetState
    /\ UNCHANGED <<conn, local, ctl, counts, mvars>>

\* a step taken for the second call
OtherStep ==
    \/ OtherStart
    \/ OtherSpeechStarted
    \/ \E c \in Chunks : OtherTranscriptDelta(c)
    \/ OtherResponseComplete
    \/ OtherTeardown

\* ------------------------------------------------------------ specification
Next ==
    \/ StartSession /\ UNCHANGED <<mvars, ovars, kvars>>
    \/ ConnectFails /\ UNCHANGED <<mvars, ovars, kvars>>
    \/ Teardown /\ UNCHANGED <<mvars, ovars, kvars>>
    \/ EndpointCloses /\ UNCHANGED <<mvars, ovars, kvars>>
    \/ (\E p \in MediaPayloads : PlivoMedia(p)) /\ UNCHANGED <<mvars, ovars, kvars>>
    \/ (\E sid \in StreamIds : PlivoStart(sid)) /\ UNCHANGED <<mvars, ovars, kvars>>
    \/ PlivoOther /\ UNCHANGED <<mvars, ovars, kvars>>
    \/ PlivoMalformed /\ UNCHANGED <<mvars, ovars, kvars>>
    \/ RecvClosed /\ UNCHANGED <<mvars, ovars, kvars>>
    \/ OnSessionUpdated /\ UNCHANGED <<mvars, ovars, kvars>>
    \/ OnOther /\ UNCHANGED <<mvars, ovars, kvars>>
    \/ OnMalformed /\ UNCHANGED <<mvars, ovars, kvars>>
    \/ OnSpeechStarted /\ UNCHANGED <<mvars, ovars, kvars>>
    \/ (\E c \in Chunks : OnTranscriptDelta(c)) /\ UNCHANGED <<mvars, ovars, kvars>>
    \/ OnSpeechEnded /\ UNCHANGED <<mvars, ovars, kvars>>
    \/ AfterPause /\ UNCHANGED <<mvars, ovars, kvars>>
    \/ Tick /\ UNCHANGED <<mvars, ovars, kvars>>
    \/ LookupReturns /\ UNCHANGED <<mvars, ovars, kvars>>
    \/ AfterContext /\ UNCHANGED <<mvars, ovars, kvars>>
    \/ AfterResume /\ UNCHANGED <<mvars, ovars, kvars>>
    \/ (\E p \in Payloads, r \in Rids : OnAudioDelta(p, r)) /\ UNCHANGED <<mvars, ovars, kvars>>
    \/ WaitDone /\ UNCHANGED <<mvars, ovars, kvars>>
    \/ OnResponseComplete /\ UNCHANGED <<mvars, ovars, kvars>>

MNext ==
    \/ (\E u \in CallUUIDs : home(u)) /\ UNCHANGED <<vars, ovars, kvars>>
    \/ (\E u \in CallUUIDs : MainnConnect(u)) /\ UNCHANGED <<vars, ovars, kvars>>
    \/ (\E u \in CallUUIDs : MainnConnectFails(u)) /\ UNCHANGED <<vars, ovars, kvars>>
    \/ (\E how \in {"ok", "error"} : MainnEndpointCloses(how)) /\ UNCHANGED <<vars, ovars, kvars>>
    \/ MainnTransportCloses /\ UNCHANGED <<vars, ovars, kvars>>
    \/ MainnRecvClosed /\ UNCHANGED <<vars, ovars, kvars>>
    \/ MainnJoin /\ UNCHANGED <<vars, ovars, kvars>>
    \/ MainnCancelled /\ UNCHANGED <<vars, ovars, kvars>>
    \/ (\E p \in Payloads, r \in Rids : MainnAudioDelta(p, r)) /\ UNCHANGED <<vars, ovars, kvars>>
    \/ MainnSpeechStarted /\ UNCHANGED <<vars, ovars, kvars>>
    \/ MainnAfterClear /\ UNCHANGED <<vars, ovars, kvars>>
    \/ MainnOther /\ UNCHANGED <<vars, ovars, kvars>>
    \/ MainnError /\ UNCHANGED <<vars, ovars, kvars>>
    \/ MainnMalformed /\ UNCHANGED <<vars, ovars, kvars>>
    \/ (\E n \in ToolNames, c \in CallIds, a \in Arguments : MainnToolCall(n, c, a)) /\ UNCHANGED <<vars, ovars, kvars>>
    \/ MainnAfterToolOutput /\ UNCHANGED <<vars, ovars, kvars>>
    \/ (\E i \in ItemIds, d \in TranscriptDeltas : MainnTranscriptionDelta(i, d)) /\ UNCHANGED <<vars, ovars, kvars>>
    \/ (\E i \in ItemIds : MainnTranscriptionCompleted(i)) /\ UNCHANGED <<vars, ovars, kvars>>
    \/ (\E p \in MediaPayloads : MainnPlivoMedia(p)) /\ UNCHANGED <<vars, ovars, kvars>>
    \/ (\E p \in MediaPayloads : MainnPlivoMediaSendFails(p)) /\ UNCHANGED <<vars, ovars, kvars>>
    \/ (\E sid \in StreamIds : MainnPlivoStart(sid)) /\ UNCHANGED <<vars, ovars, kvars>>
    \/ MainnPlivoOther /\ UNCHANGED <<vars, ovars, kvars>>
    \/ MainnPlivoHangup /\ UNCHANGED <<vars, ovars, kvars>>
    \/ MainnPlivoMalformed /\ UNCHANGED <<vars, ovars, kvars>>

\* the gated bridge of src/app.py
Spec == Init /\ [][Next]_allvars

\* the gated bridge with its clock: time passes while the pump waits in
\* wait_for, and a wait_for whose event is set or whose timeout has expired
\* returns
SpecLive ==
    /\ Init /\ [][Next]_allvars
    /\ WF_allvars(hpc = "wait" /\ Tick /\ UNCHANGED <<mvars, ovars, kvars>>)
    /\ WF_allvars(WaitDone /\ UNCHANGED <<mvars, ovars, kvars>>)

\* the tool-calling bridge of src/app/mainn.py
SpecMainn == Init /\ [][MNext]_allvars

CNext ==
    \/ Next
    \/ OtherStart /\ UNCHANGED kvars
    \/ OtherSpeechStarted /\ UNCHANGED kvars
    \/ (\E c \in Chunks : OtherTranscriptDelta(c)) /\ UNCHANGED kvars
    \/ OtherResponseComplete /\ UNCHANGED kvars
    \/ OtherTeardown /\ UNCHANGED kvars

\* two calls of src/app.py served at the same time
SpecConcurrent == Init /\ [][CNext]_allvars

\* ------------------------------------------------------- derived vocabulary
\* the pump is inside the speech_ended branch, before the gate is opened
Resolving == hpc \in {"post_pause", "lookup", "post_ctx", "post_resume"}

\* the turn state of the session, read off the flags and the pump's position
turnState ==
    IF speech_in_progress THEN "CallerSpeaking"
    ELSE IF Resolving THEN "Resolving"
    ELSE IF openai_responding THEN "AssistantResponding"
    ELSE "Idle"

\* the step sends a message of the given type to the endpoint
SentNow(type) ==
    /\ Len(toOpenAI') = Len(toOpenAI) + 1
    /\ toOpenAI'[Len(toOpenAI')].type = type

\* the step sends a playAudio frame to the transport
PlayedNow ==
    /\ Len(toPlivo') = Len(toPlivo) + 1
    /\ toPlivo'[Len(toPlivo')].event = "playAudio"

Indices(m) == { i \in 1..Len(toOpenAI) : toOpenAI[i] = m }
Pauses == Cardinality(Indices(PauseCmd))
Resumes == Cardinality(Indices(ResumeCmd))
LastPause == IF Indices(PauseCmd) = {} THEN 0
             ELSE CHOOSE i \in Indices(PauseCmd) : \A j \in Indices(PauseCmd) : j <= i

\* m is a context-injection message whose payload ends with info
Carries(m, info) ==
    /\ m.type = "assistant.context.update"
    /\ Len(m.text) >= Len(info)
    /\ SubSeq(m.text, Len(m.text) - Len(info) + 1, Len(m.text)) = info

\* since the last pause: the context message with info, then the one resume
InjectedBeforeResume(info) ==
    /\ LastPause > 0
    /\ \E j, k \in (LastPause + 1)..Len(toOpenAI) :
          /\ j < k
          /\ Carries(toOpenAI[j], info)
          /\ toOpenAI[k] = ResumeCmd
          /\ \A n \in (LastPause + 1)..Len(toOpenAI) : toOpenAI[n] = ResumeCmd => n = k

\* since the last pause: the context message with info, and no resume yet
InjectedNotResumed(info) ==
    /\ LastPause > 0
    /\ \E j \in (LastPause + 1)..Len(toOpenAI) : Carries(toOpenAI[j], info)
    /\ \A n \in (LastPause + 1)..Len(toOpenAI) : toOpenAI[n] # ResumeCmd

\* the tool-calling bridge is playing a response: the last frame it sent to
\* the transport is assistant audio
MainnResponding ==
    /\ m_toPlivo # << >>
    /\ m_toPlivo[Len(m_toPlivo)].event = "playAudio"

\* ------------------------------------------------------------------- claims

\* C1: a playAudio frame is sent to the transport only while the response
\* gate can_respond is open.
C1_AudioOnlyWhileGateOpen == [][PlayedNow => can_respond]_vars

\* C2 as stated: in a live session the gate is open if and only if the turn
\* state is Idle or AssistantResponding.
C2_GateOpenIffIdleOrResponding ==
    mpc = "run" => (can_respond <=> turnState \in {"Idle", "AssistantResponding"})

\* C2 as amended: the gate is blocked in every state from the handling of
\* speech_started until the resolution of that utterance is complete (the
\* caller is speaking, or processing_complete is still cleared); in Idle and
\* AssistantResponding it may be open or blocked.
C2_GateBlockedUntilResolved ==
    (turnState = "CallerSpeaking" \/ ~processing_complete) => ~can_respond

C2_Witness ==
    /\ speech_in_progress /\ ~processing_complete /\ ~can_respond
    /\ openai_responding /\ toPlivo # << >>

\* C3: a lookup that never returns does not keep the session in Resolving
\* once the deadline has expired.
C3_LeavesResolvingAfterDeadline ==
    ~(hpc = "lookup" /\ call.outcome = "hang" /\ timer > timeout)

\* C4: no context-injection message is sent for a lookup that completes
\* after the deadline has expired.
C4_NoInjectionAfterDeadline ==
    [][SentNow("assistant.context.update") => timer <= timeout]_vars

\* C5: when the lookup returned a non-empty result, the context message
\* carrying that result is on the wire before the resume command, and the
\* gate is opened and processing_complete set only after both.
C5_ContextBeforeUnblock ==
    /\ [](/\ (hpc = "post_ctx" /\ Truthy(product_info))
                 => InjectedNotResumed(product_info.text)
          /\ (hpc = "post_resume" /\ Truthy(product_info))
                 => InjectedBeforeResume(product_info.text))
    /\ [][((~can_respond /\ can_respond') \/ (~processing_complete /\ processing_complete'))
            => /\ hpc = "post_resume"
               /\ Truthy(product_info) => InjectedBeforeResume(product_info.text)]_vars

C5_Witness ==
    /\ hpc = "post_resume"
    /\ current_transcript = <<"what", " ", "is">>
    /\ product_info = Str(AnswerText)
    /\ InjectedBeforeResume(AnswerText)
    /\ ~can_respond /\ ~processing_complete

\* C6: the pause is sent before the lookup begins, the resume only after it
\* has concluded, and every pause is followed by exactly one resume: once
\* the pump is back at its loop, or has ended without a connection failure,
\* no pause is left without its resume.
C6_PauseResumeMatched ==
    /\ hpc \in {"post_pause", "lookup", "post_ctx"} => Pauses = Resumes + 1
    /\ (hpc \in {"idle", "post_resume"} \/ (hpc = "done" /\ oend = "exception"))
           => Pauses = Resumes

\* C7: a speech_started event handled while the assistant is responding
\* sends one response.cancel to the endpoint and then one clearAudio to the
\* transport, in that order: the first command the handler issues is the
\* response.cancel, with nothing sent to the transport before it.
C7_CancelThenClear ==
    [][(MainnResponding /\ MainnSpeechStarted)
          => /\ m_toOpenAI' = Append(m_toOpenAI, CancelResponse)
             /\ m_toPlivo' = m_toPlivo]_allvars

\* C8: after a barge-in has been handled (clearAudio sent after audio of a
\* response was played), no further audio delta of that response is
\* forwarded to the transport as playAudio.
C8_NoOldTurnAudioAfterBargeIn ==
    \A i, j, k \in DOMAIN m_toPlivo :
        (/\ i < j /\ j < k
         /\ m_toPlivo[i].event = "playAudio"
         /\ m_toPlivo[j].event = "clearAudio"
         /\ m_toPlivo[k].event = "playAudio")
            => m_toPlivo[k].rid # m_toPlivo[i].rid

\* C9: between speech_started and speech_ended, the transcript after a
\* transcript delta is the transcript before it followed by the delta's text,
\* whatever the text is.
C9_TranscriptIsConcatenation ==
    [][\A c \in Chunks :
          (speech_in_progress /\ OnTranscriptDelta(c))
              => current_transcript' = current_transcript \o c]_vars

\* C10: a failure inside the capability invocation never ends the pump.
C10_CapabilityFailureContained ==
    ~(hpc = "done" /\ oend = "exception" /\ call.outcome \in {"embed_fail", "answer_fail"})

\* the invocations of after_call_hangup that removed the entry of the call
Releases ==
    { i \in DOMAIN m_teardowns :
        m_teardowns[i] \in {"no_conversation", "send_failed", "summary_sent"} }

\* handle_message has returned and receive_from_plivo is not running
TornDown == m_pc = "ended" /\ m_ppc \in {"none", "done"}

\* C11: every function call request is answered by one function_call_output
\* item carrying the call_id of the request, sent by the handler of the
\* request, and after it by one response.create.
C11_ToolCallAnswered ==
    [][/\ \A n \in ToolNames, c \in CallIds, a \in Arguments :
             MainnToolCall(n, c, a)
                 => /\ m_toOpenAI' = Append(m_toOpenAI, ToolOutput(c))
                    /\ m_pc' = "tool_out_sent"
       /\ MainnAfterToolOutput
             => m_toOpenAI' = Append(m_toOpenAI, ResponseCreate)]_allvars

\* C12: once the loop over the endpoint's messages has ended, the pump of
\* the transport is not running either, and when the handler has returned
\* teardown has run exactly once.
C12_PumpsEndTogether ==
    /\ m_pc \in {"await_task", "ended"} => m_ppc \in {"none", "done"}
    /\ m_pc = "ended" => Len(m_teardowns) = 1

\* C13: when after_call_hangup has been invoked two or more times for the
\* call, exactly one invocation released the entry and none raised.
C13_TeardownIdempotent ==
    Len(m_teardowns) >= 2
        => /\ Cardinality(Releases) = 1
           /\ \A i \in DOMAIN m_teardowns : m_teardowns[i] # "raised"

\* C14: once the session of a call has been torn down, call_data holds no
\* entry for the call.
C14_NoEntryAfterTeardown ==
    TornDown => ~call_data[m_uuid].present

\* C15: a failed write ends the pump that made it: an audio delta handled
\* after the transport has gone away does not leave the loop over the
\* endpoint's messages running.
C15_WriteFailureIsFatal ==
    [][(~m_plivo_open /\ \E r \in Rids : MainnAudioDelta("QUJD", r))
          => m_pc' # "loop"]_allvars

\* C16: after an error event of the endpoint has been handled, the loop over
\* the endpoint's messages is not running any more.
C16_ErrorEventIsFatal ==
    [][MainnError => m_pc' # "loop"]_allvars

\* C17: a message of the endpoint or a frame of the transport that cannot be
\* parsed changes no session state and ends neither pump.
C17_MalformedIgnored ==
    [][(OnMalformed \/ PlivoMalformed)
          => UNCHANGED <<globals, conn, ctl>>]_vars

\* C18: two calls served at the same time are independent: no step taken for
\* one call changes the transcript buffer, the turn flags, the response gate
\* or the resolution-complete signal that the other, live call works on
C18_SessionsIndependent ==
    [][(mpc = "run" /\ OtherStep) => UNCHANGED globals]_allvars

\* the transitions of the turn state that the session is meant to take
TurnSteps ==
    { <<"Idle", "CallerSpeaking">>, <<"CallerSpeaking", "Resolving">>,
      <<"Resolving", "AssistantResponding">>, <<"AssistantResponding", "Idle">>,
      <<"AssistantResponding", "CallerSpeaking">> }

\* C19: while a session is live its turn state changes only along
\* Idle -> CallerSpeaking -> Resolving -> AssistantResponding -> Idle, or from
\* AssistantResponding to CallerSpeaking on barge-in
C19_TurnStateOrder ==
    [][(mpc = "run" /\ mpc' = "run")
          => (turnState' = turnState \/ <<turnState, turnState'>> \in TurnSteps)]_vars

\* the step appends the text of one transcript delta to the buffer
AppendsDelta ==
    \E c \in Chunks :
        /\ OnTranscriptDelta(c) \/ OtherTranscriptDelta(c)
        /\ current_transcript' = current_transcript \o c

\* C20 as stated: in a live session the transcript buffer changes only by
\* appending the text of a delta, or by being emptied at the handling of
\* speech_started
C20_ResetOnlyAtSpeechStarted ==
    [][(mpc = "run" /\ mpc' = "run" /\ current_transcript' # current_transcript)
          => \/ AppendsDelta
             \/ current_transcript' = << >> /\ OnSpeechStarted]_vars

\* C20, amended: the transcript buffer changes only by appending the text of
\* a delta, or by being emptied at the handling of speech_started, at the end
\* of the handling of speech_ended (after the resume command), or in the
\* finally block of media_stream when a session ends
C20_AppendOrReset ==
    [][current_transcript' # current_transcript
          => \/ AppendsDelta
             \/ /\ current_transcript' = << >>
                /\ \/ OnSpeechStarted \/ OtherSpeechStarted
                   \/ AfterResume
                   \/ Teardown \/ ConnectFails \/ OtherTeardown]_allvars

\* a resolution of a non-empty utterance has just ended: the context, the
\* resume command and the ready message were sent and the buffer is empty
C20_Witness ==
    /\ mpc = "run" /\ hpc = "idle"
    /\ current_transcript = << >>
    /\ Len(toOpenAI) >= 3
    /\ toOpenAI[Len(toOpenAI)] = ReadyMessage
    /\ toOpenAI[Len(toOpenAI) - 1] = ResumeCmd
    /\ toOpenAI[Len(toOpenAI) - 2].type = "assistant.context.update"

\* C21: the transport pump sends an append-audio event for a media frame only
\* if the connection to the endpoint is open; a media frame handled while it
\* is closed writes nothing, raises nothing, and the pump goes on reading
\* (handle_plivo_messages of src/app.py, receive_from_plivo of mainn.py)
C21_MediaOnlyIfOpen ==
    [][/\ SentNow("input_audio_buffer.append") => openai_open
       /\ \A p \in MediaPayloads :
            /\ (PlivoMedia(p) /\ ~openai_open)
                  => /\ toOpenAI' = toOpenAI
                     /\ ppc' = "recv" /\ pend' = pend /\ mpc' = "run"
            /\ (MainnPlivoMedia(p) /\ ~m_open)
                  => /\ m_toOpenAI' = m_toOpenAI
                     /\ m_ppc' = "recv" /\ m_pend' = m_pend /\ m_teardowns' = m_teardowns
       /\ (Len(m_toOpenAI') > Len(m_toOpenAI)
             /\ m_toOpenAI'[Len(m_toOpenAI')].type = "input_audio_buffer.append")
             => m_open]_allvars

\* a media frame was handled while the endpoint was closed, and the pump is
\* still reading
C21_Witness ==
    /\ mpc = "run" /\ ppc = "recv" /\ ~openai_open
    /\ \E i \in DOMAIN fromPlivo : ~fromPlivo[i].open

\* C22: when the transport pump handles a hangup frame, teardown is triggered
\* and the pump leaves its read loop: no further frame of the call is handled
C22_HangupStopsPump ==
    [][MainnPlivoHangup
          => /\ Len(m_teardowns') > Len(m_teardowns)
             /\ m_ppc' = "done"]_allvars

\* C23: the stream handle is set once, by the first start frame, and never
\* changes for the rest of the call; every clearAudio frame carries it
C23_StreamIdSetOnce ==
    [][/\ m_stream_id # "unset" => m_stream_id' = m_stream_id
       /\ \A i \in DOMAIN m_toPlivo' :
            m_toPlivo'[i].event = "clearAudio"
               => m_toPlivo'[i].stream_id = m_stream_id']_allvars

\* C24: after the teardown of a session every piece of turn state is back at
\* its initial value: transcript empty, speech_in_progress, openai_responding
\* and pending_pinecone_query False, gate closed, processing_complete cleared
C24_TeardownResetsAll ==
    mpc = "ended"
       => /\ current_transcript = << >>
          /\ ~speech_in_progress
          /\ ~openai_responding
          /\ ~pending_pinecone_query
          /\ ~can_respond
          /\ ~processing_complete

\* C25: handling a response.complete event, in whatever state it is received,
\* leaves openai_responding False and the response gate closed
C25_ResponseCompleteClosesGate ==
    [][OnResponseComplete => ~openai_responding' /\ ~can_respond']_vars

\* a response.complete has been handled after audio was played through an
\* open gate: the response is over and the gate is closed again while the
\* resolution-complete signal is still set
C25_Witness ==
    /\ mpc = "run" /\ hpc = "idle"
    /\ toPlivo # << >>
    /\ processing_complete
    /\ ~openai_responding /\ ~can_respond

\* the payloads of the append-audio events sent to the endpoint, in order
AudioSent ==
    LET a == SelectSeq(toOpenAI, LAMBDA m : m.type = "input_audio_buffer.append")
    IN [i \in 1..Len(a) |-> a[i].text[1]]

\* the payloads of the media frames read while the endpoint was open, in order
HeardOpen ==
    LET h == SelectSeq(fromPlivo, LAMBDA f : f.open)
    IN [i \in 1..Len(h) |-> h[i].payload]

\* the step finishes the handling of the audio delta (p, r)
Forwards(p, r) ==
    \/ OnAudioDelta(p, r) /\ hpc' # "wait"
    \/ WaitDone /\ cur.delta = p /\ cur.rid = r

\* the transport-to-endpoint half of C26: every media frame read while the
\* endpoint is open is sent at once, after everything sent before it, and the
\* payloads sent are the payloads read, in the order they were read
RelayedToEndpoint ==
    /\ AudioSent' = HeardOpen'
    /\ \A p \in MediaPayloads :
          (PlivoMedia(p) /\ openai_open) => toOpenAI' = Append(toOpenAI, AudioAppend(p))

\* C26 as stated: audio is relayed in arrival order and unmodified in both
\* directions: the playAudio frame of a forwarded delta carries the delta's
\* payload as it arrived
C26_RelayedUnmodified ==
    [][/\ RelayedToEndpoint
       /\ toPlivo' # toPlivo
             => \/ StartSession
                \/ \E p \in Payloads, r \in Rids :
                      Forwards(p, r) /\ toPlivo' = Append(toPlivo, PlayAudio(p, r))]_vars

\* C26, amended: audio is relayed in arrival order in both directions, with
\* no frame duplicated, reordered or buffered; media payloads reach the
\* endpoint unmodified, and the playAudio frame of a forwarded delta carries
\* the delta's payload decoded from base64 and encoded again
C26_RelayedInOrder ==
    [][/\ RelayedToEndpoint
       /\ toPlivo' # toPlivo
             => \/ StartSession
                \/ \E p \in Payloads, r \in Rids :
                      /\ Forwards(p, r)
                      /\ ~Reencode(p).raised
                      /\ toPlivo' = Append(toPlivo, PlayAudio(Reencode(p).value, r))]_vars

\* audio has gone both ways: a media frame was sent on to the endpoint and
\* the frames of two forwarded deltas were sent to the transport
C26_Witness ==
    /\ mpc = "run"
    /\ Len(AudioSent) >= 1
    /\ Len(toPlivo) >= 2
    /\ toPlivo[1].rid # toPlivo[2].rid

\* C27: the first audio delta of a turn (openai_responding False) waits for
\* the resolution-complete signal, and the wait always ends: the pump leaves
\* it, and forwards the frame, only once processing_complete is set or the
\* deadline has expired; a delta handled while openai_responding is True is
\* forwarded without waiting
C27_WaitTerminates ==
    /\ [][/\ (hpc = "wait" /\ hpc' \in {"idle", "done"} /\ mpc' = "run")
                => processing_complete \/ timer = timeout
          /\ (hpc = "wait" /\ PlayedNow)
                => (processing_complete \/ timer = timeout)
                   /\ toPlivo' = Append(toPlivo, PlayAudio(Reencode(cur.delta).value, cur.rid))
          /\ \A p \in Payloads, r \in Rids :
                OnAudioDelta(p, r)
                   => IF openai_responding \/ processing_complete
                      THEN hpc' # "wait"
                      ELSE hpc' = "wait" /\ toPlivo' = toPlivo]_vars
    /\ (hpc = "wait") ~> (hpc # "wait")

\* in the first session, where the signal was never set, the first delta
\* waited until the deadline and was forwarded, and a later delta of the same
\* response was forwarded after it
C27_Witness ==
    /\ mpc = "run" /\ nsess = 1 /\ hpc = "idle"
    /\ Pauses = 0 /\ ~processing_complete
    /\ openai_responding
    /\ Len(toPlivo) >= 2

\* C28: a live call has exactly one registry entry of its own, from the
\* moment the call connects until the transport or the endpoint closes,
\* whichever happens first: the entry is there while both connections are
\* up, and it is gone once the handler has seen either of them close
C28_OneEntryPerLiveCall ==
    /\ (m_pc \notin {"none", "ended"} /\ m_open /\ m_plivo_open)
          => call_data[m_uuid].present
    /\ m_pc \in {"await_task", "ended"} => ~call_data[m_uuid].present

\* a frame is handled by the transport pump
PlivoStep ==
    \/ \E p \in MediaPayloads : PlivoMedia(p)
    \/ \E sid \in StreamIds : PlivoStart(sid)
    \/ PlivoOther
    \/ PlivoMalformed

\* C29: the session's fields are changed only inside transitions that run as
\* a mutually exclusive critical section: no step of the transport pump is
\* taken while a transition of the endpoint pump is half applied, that is
\* between the first and the last write of the speech_ended handling or of
\* the handling of an audio delta
C29_TransitionsAtomic ==
    [][PlivoStep => hpc \in {"idle", "done"}]_vars

\* what C30 says of the speech_ended handling apart from the query: the
\* lookup is entered only there and only for a transcript that is not empty
\* once stripped; for an empty one nothing is looked up or injected, the
\* resume command is the first thing the pump sends after the pause command,
\* and the gate is opened right after the resume command
SpeechEndedOrder ==
    /\ (hpc' = "lookup" /\ hpc # "lookup")
          => AfterPause /\ Strip(current_transcript) # << >>
    /\ (AfterPause /\ Strip(current_transcript) = << >>)
          => /\ call' = NoCall /\ hpc' # "lookup"
             /\ pending_pinecone_query' = pending_pinecone_query
             /\ context_updated' = context_updated
             /\ openai_open => /\ toOpenAI' = Append(toOpenAI, ResumeCmd)
                               /\ hpc' = "post_resume"
    /\ SentNow("assistant.context.update") => hpc = "lookup"
    /\ (hpc' = "post_pause" /\ hpc # "post_pause")
          => SentNow("input_audio_buffer.paused") /\ OnSpeechEnded
    /\ (can_respond' /\ ~can_respond)
          => /\ AfterResume /\ processing_complete'
             /\ Resumes = Pauses
             /\ \E i \in Indices(ResumeCmd) : i > LastPause

\* C30 as stated: on speech_ended process_user_query is invoked if and only
\* if the transcript is non-empty after stripping, with the accumulated text
\* as its query; for an empty transcript nothing is looked up or injected,
\* and pause, resume and the opening of the gate still occur in that order
C30_LookupWithTranscript ==
    [][/\ SpeechEndedOrder
       /\ (AfterPause /\ Strip(current_transcript) # << >>)
             => hpc' = "lookup" /\ call'.query = current_transcript]_vars

\* C30, amended: the query is the accumulated text with leading and trailing
\* whitespace stripped
C30_LookupWithStrippedTranscript ==
    [][/\ SpeechEndedOrder
       /\ (AfterPause /\ Strip(current_transcript) # << >>)
             => hpc' = "lookup" /\ call'.query = Strip(current_transcript)]_vars

\* a first speech_ended found the transcript empty: pause, resume and the
\* ready message were sent with nothing between them and the gate is open;
\* a second one is now looked up, with the stripped transcript as the query
C30_Witness ==
    /\ mpc = "run" /\ nsess = 1 /\ hpc = "lookup"
    /\ Len(toOpenAI) >= 6
    /\ SubSeq(toOpenAI, 3, 5) = <<PauseCmd, ResumeCmd, ReadyMessage>>
    /\ can_respond /\ processing_complete
    /\ call.query = Strip(current_transcript)
    /\ call.query # current_transcript

\* C31: within one session no playAudio frame is sent to the transport
\* between the pause command and the resume command of an utterance: the
\* pump reads no endpoint event until the speech_ended handling has finished
C31_NoAudioWhilePaused ==
    [][/\ PlayedNow => Pauses = Resumes /\ ~Resolving
       /\ Resolving => ~(\E p \in Payloads, r \in Rids : OnAudioDelta(p, r))]_vars

\* audio was being played, a speech_ended was handled and its lookup is under
\* way: the pause is not yet matched by a resume
C31_Witness ==
    /\ mpc = "run" /\ hpc = "lookup"
    /\ toPlivo # << >>
    /\ Pauses = Resumes + 1

\* C32: in a single session, when an audio delta is handled with
\* openai_responding False and processing_complete not set, the signal
\* cannot become set during the wait: nothing but the clock moves while the
\* pump waits, no endpoint event is handled, the wait ends at the deadline,
\* and the frame is then forwarded
C32_WaitEndsByTimeout ==
    [][/\ hpc' = "wait" => ~processing_complete'
       /\ (hpc = "wait" /\ hpc' = "wait")
             => UNCHANGED <<globals, toPlivo, cur>> /\ timer' >= timer
       /\ (hpc = "wait" /\ hpc' # "wait" /\ mpc' = "run")
             => /\ timer = timeout /\ WaitDone
                /\ ~Reencode(cur.delta).raised
                      => toPlivo' = Append(toPlivo,
                                           PlayAudio(Reencode(cur.delta).value, cur.rid))
       /\ (PlayedNow /\ ~openai_responding /\ ~processing_complete)
             => hpc = "wait" /\ timer = timeout]_vars

\* in the first session, with the signal never set, the first audio delta
\* has waited until the deadline and its frame is the one frame sent so far
C32_Witness ==
    /\ mpc = "run" /\ nsess = 1 /\ hpc = "idle"
    /\ Pauses = 0 /\ ~processing_complete
    /\ openai_responding
    /\ Len(toPlivo) = 1

C34_SpeechStartedCancels ==
    [][/\ MainnSpeechStarted => m_pc' = "clear_sent"
       /\ MainnAfterClear => m_toOpenAI' = Append(m_toOpenAI, CancelResponse)]_allvars

\* the invocations of after_call_hangup that generated the summary of the
\* call and handed it to the WhatsApp send
Summaries ==
    { i \in DOMAIN m_teardowns : m_teardowns[i] \in {"send_failed", "summary_sent"} }

CallEntry == IF m_uuid \in CallUUIDs THEN call_data[m_uuid] ELSE NoEntry

\* the transcription of an item is stored as complete
Completed(e, item) == \E r \in Stored(e, item) : r.complete

\* C36: per transcription item id, the stored text is the concatenation of
\* the item's deltas in arrival order until its completed event is handled;
\* from then on the stored text is the completed transcript with complete
\* True for the rest of the call, whatever events follow
C36_CompletedIsFinal ==
    [][\A i \in ItemIds :
          /\ \A d \in TranscriptDeltas :
                (MainnTranscriptionDelta(i, d) /\ ~Completed(CallEntry, i))
                    => Stored(CallEntry', i) =
                          { [item_id |-> i, complete |-> FALSE,
                             text |-> IF Stored(CallEntry, i) = {} THEN d
                                      ELSE (CHOOSE r \in Stored(CallEntry, i) : TRUE).text \o d] }
          /\ (Completed(CallEntry, i) /\ CallEntry'.present)
                => Stored(CallEntry', i) = Stored(CallEntry, i)]_allvars

\* C37: pending_pinecone_query is True only while process_user_query is
\* executing: whenever the endpoint pump is waiting for its next event, and
\* after the session has ended, it is False
C37_PendingOnlyDuringLookup ==
    (hpc = "idle" \/ mpc = "ended") => ~pending_pinecone_query

\* ============================================ src/app/google_calender.py
\* Times are minutes. A datetime of the Asia/Kolkata zone is its wall clock
\* counted from midnight of the day the model starts on; a UTC datetime is
\* 330 minutes behind it.
ISTOffset == 330
ToUTC(t) == t - ISTOffset
ToIST(u) == u + ISTOffset
DayMinutes == 1440
At(d, h, m) == d * DayMinutes + h * 60 + m
hour(t) == (t \div 60) % 24
minute(t) == t % 60

\* timedelta(minutes=30), the cap of the slot list, business hours and
\* timedelta(days=3)
SlotMinutes == 30
SlotLimit == 20
OpenHour == 9
CloseHour == 18
WindowDays == 3

\* values of datetime.now(IST)
Nows == { At(0, 9, 0), At(0, 10, 10), At(0, 17, 40) }

\* events of the primary calendar, with UTC start and end: a meeting, an
\* event of several days, and a meeting on the third day after it
ShortEvent == [start |-> ToUTC(At(0, 11, 0)), end |-> ToUTC(At(0, 11, 45))]
LongEvent == [start |-> ToUTC(At(0, 10, 30)), end |-> ToUTC(At(3, 10, 0))]
LateEvent == [start |-> ToUTC(At(3, 10, 15)), end |-> ToUTC(At(3, 10, 45))]
Calendars == { {}, {ShortEvent}, {LongEvent}, {LongEvent, LateEvent} }

\* what the Google services do during one handler: build_service of the
\* handler and of is_slot_available, events().list, events().insert;
\* TRUE when the call succeeds
Services == [build : BOOLEAN, avail_build : BOOLEAN, list : BOOLEAN, insert : BOOLEAN]

\* values of start_time_str: an ISO time without offset, one with +00:00,
\* text that is no ISO time, and a value that is no string
Walls == { At(0, 9, 30), At(0, 11, 0), At(0, 12, 0), At(0, 18, 0), At(1, 6, 0) }
TimeStrings ==
    [kind : {"naive", "utc"}, wall : Walls]
        \cup { [kind |-> "malformed", wall |-> 0], [kind |-> "none", wall |-> 0] }

\* datetime.fromisoformat followed by IST.localize of a naive result: the
\* wall clock the string names, and the instant it denotes as IST minutes
fromisoformat(s) ==
    IF s.kind = "none" THEN [raised |-> "TypeError", wall |-> 0, at |-> 0]
    ELSE IF s.kind = "malformed" THEN [raised |-> "ValueError", wall |-> 0, at |-> 0]
    ELSE [raised |-> "no", wall |-> s.wall,
          at |-> IF s.kind = "utc" THEN ToIST(s.wall) ELSE s.wall]

\* service.events().list(timeMin, timeMax, singleEvents=True): the events
\* that end after timeMin and start before timeMax
Listed(cal, timeMin, timeMax) ==
    { e \in cal : e.end > timeMin /\ e.start < timeMax }

\* 9 <= t.hour < 18
BusinessHours(t) == OpenHour <= hour(t) /\ hour(t) < CloseHour

\* is_slot_available(proposed_time_str)
is_slot_available(s, now, cal, svc) ==
    LET p == fromisoformat(s)
    IN IF ~svc.avail_build THEN FALSE
       ELSE IF p.raised # "no" THEN FALSE
       ELSE IF ~BusinessHours(p.wall) THEN FALSE
       ELSE IF p.at < now THEN FALSE
       ELSE IF ~svc.list THEN FALSE
       ELSE Listed(cal, ToUTC(p.at), ToUTC(p.at + SlotMinutes)) = {}

\* a return of {"error": ...} by book_slot_handler
BookError(cal, avail) ==
    [result |-> "error", available |-> avail, inserted |-> FALSE, cal |-> cal]

\* mutant: the result of is_slot_available is not tested
book_slot_handler_IgnoresAvailability(s, now, cal, svc) ==
    LET p == fromisoformat(s)
    IN IF ~svc.build THEN BookError(cal, "not_called")
       ELSE IF p.raised # "no" THEN BookError(cal, "not_called")
       ELSE IF p.at < now THEN BookError(cal, "not_called")
       ELSE IF ~BusinessHours(p.wall) THEN BookError(cal, "not_called")
       ELSE IF ~svc.insert
       THEN BookError(cal, IF is_slot_available(s, now, cal, svc) THEN "true" ELSE "false")
       ELSE [result |-> "success",
             available |-> IF is_slot_available(s, now, cal, svc) THEN "true" ELSE "false",
             inserted |-> TRUE,
             cal |-> cal \cup { [start |-> ToUTC(p.at),
                                 end |-> ToUTC(p.at + SlotMinutes)] }]

\* book_slot_handler(start_time_str, email) on calendar cal: what it
\* returns, what is_slot_available returned to it, and the calendar it
\* leaves; the email is only copied into the event
book_slot_handler(s, now, cal, svc) ==
    LET p == fromisoformat(s)
    IN IF ~svc.build THEN BookError(cal, "not_called")
       ELSE IF p.raised # "no" THEN BookError(cal, "not_called")
       ELSE IF p.at < now THEN BookError(cal, "not_called")
       ELSE IF ~BusinessHours(p.wall) THEN BookError(cal, "not_called")
       ELSE IF ~is_slot_available(s, now, cal, svc) THEN BookError(cal, "false")
       ELSE IF ~svc.insert THEN BookError(cal, "true")
       ELSE [result |-> "success", available |-> "true", inserted |-> TRUE,
             cal |-> cal \cup { [start |-> ToUTC(p.at),
                                 end |-> ToUTC(p.at + SlotMinutes)] }]

\* one call of book_slot_handler
Book(s, svc) ==
    /\ k_pc = "idle"
    /\ k_pc' = "booked"
    /\ LET r == book_slot_handler(s, k_now, k_cal, svc)
       IN /\ k_cal' = r.cal
          /\ k_book' = [called |-> TRUE, start_time_str |-> s, svc |-> svc,
                        result |-> r.result, available |-> r.available,
                        inserted |-> r.inserted, before |-> k_cal]
    /\ UNCHANGED <<k_now, k_busy, k_start, k_end, k_current, k_slots>>

\* start of get_available_slots_handler: now rounded up to the next half
\* hour
RoundedStart(now) ==
    IF minute(now) < 30 THEN now - minute(now) + 30
    ELSE (now + 60) - minute(now + 60)

\* get_available_slots_handler up to the slot loop: the events between
\* start and end are listed; an exception of build_service or of the list
\* call is answered with {"error": ...}
get_available_slots_handler(svc) ==
    /\ k_pc = "idle"
    /\ IF ~svc.build \/ ~svc.list
       THEN /\ k_pc' = "slots_error"
            /\ UNCHANGED <<k_busy, k_start, k_end, k_current, k_slots>>
       ELSE /\ k_pc' = "slots_loop"
            /\ k_start' = RoundedStart(k_now)
            /\ k_end' = k_now + WindowDays * DayMinutes
            /\ k_busy' = Listed(k_cal, ToUTC(RoundedStart(k_now)),
                                ToUTC(k_now + WindowDays * DayMinutes))
            /\ k_current' = RoundedStart(k_now)
            /\ k_slots' = << >>
    /\ UNCHANGED <<k_now, k_cal, k_book>>

\* the slot from slot_start to slot_end overlaps an entry of busy_slots
Overlaps(slot_start, slot_end, busy) ==
    \E bs \in busy : slot_start < ToIST(bs.end) /\ slot_end > ToIST(bs.start)

\* while current < end and len(slots) < 20
SlotLoopGuard == k_current < k_end /\ Len(k_slots) < SlotLimit

\* one iteration of the slot loop
SlotLoop ==
    /\ k_pc = "slots_loop"
    /\ SlotLoopGuard
    /\ k_slots' = IF /\ BusinessHours(k_current)
                     /\ ~Overlaps(k_current, k_current + SlotMinutes, k_busy)
                     /\ minute(k_current) \in {0, 30}
                  THEN Append(k_slots, [start |-> k_current,
                                        end |-> k_current + SlotMinutes])
                  ELSE k_slots
    /\ k_current' = k_current + SlotMinutes
    /\ UNCHANGED <<k_pc, k_now, k_cal, k_busy, k_start, k_end, k_book>>

\* the loop is left and slots is returned
SlotsReturn ==
    /\ k_pc = "slots_loop"
    /\ ~SlotLoopGuard
    /\ k_pc' = "slots_returned"
    /\ UNCHANGED <<k_now, k_cal, k_busy, k_start, k_end, k_current, k_slots, k_book>>

\* a handler is called at some time on some calendar
KInit ==
    /\ AppInit /\ MainnInit /\ OtherInit
    /\ CalendarIdle
    /\ k_now \in Nows
    /\ k_cal \in Calendars

KNext ==
    \/ (\E s \in TimeStrings, svc \in Services : Book(s, svc)) /\ UNCHANGED <<vars, mvars, ovars>>
    \/ (\E svc \in Services : get_available_slots_handler(svc)) /\ UNCHANGED <<vars, mvars, ovars>>
    \/ SlotLoop /\ UNCHANGED <<vars, mvars, ovars>>
    \/ SlotsReturn /\ UNCHANGED <<vars, mvars, ovars>>

\* the calendar tools of src/app/google_calender.py
SpecCalendar == KInit /\ [][KNext]_allvars

\* C38: book_slot_handler inserts a calendar event only when the start time
\* parses, is not in the past, lies within business hours (9 <= hour < 18)
\* and is_slot_available returned True for it; in every other case, and on
\* any service error, it returns a dict with an "error" key and inserts
\* nothing
C38_BooksOnlyValidFreeSlot ==
    k_pc = "booked" =>
        LET s == k_book.start_time_str
            at == IF s.kind = "utc" THEN s.wall + ISTOffset ELSE s.wall
            valid == /\ s.kind \in {"naive", "utc"}
                     /\ at >= k_now
                     /\ 9 <= hour(s.wall) /\ hour(s.wall) < 18
                     /\ k_book.available = "true"
            serviceError == \/ ~k_book.svc.build \/ ~k_book.svc.avail_build
                            \/ ~k_book.svc.list \/ ~k_book.svc.insert
        IN /\ k_book.inserted => valid
           /\ (~valid \/ serviceError)
                 => k_book.result = "error" /\ ~k_book.inserted
           /\ ~k_book.inserted => k_cal = k_book.before
           /\ k_book.inserted
                 => k_cal = k_book.before \cup { [start |-> at - ISTOffset,
                                                  end |-> at + 30 - ISTOffset] }

\* an appointment has been booked at a time given with a UTC offset
C38_Witness ==
    /\ k_pc = "booked"
    /\ k_book.result = "success" /\ k_book.inserted
    /\ k_book.start_time_str.kind = "utc"
    /\ k_cal # k_book.before

\* C39: the slot loop of get_available_slots_handler always terminates and
\* returns at most 20 slots; every returned slot starts at minute 0 or 30
\* with start hour in [9, 18), lasts 30 minutes, lies between the rounded
\* start and three days from now, overlaps no busy calendar interval, and
\* the slots are returned in increasing start order
C39_SlotsWellFormed ==
    /\ k_pc = "slots_loop"
          => k_current <= k_end + 30 /\ Len(k_slots) <= 20
    /\ k_pc = "slots_returned"
          => /\ Len(k_slots) <= 20
             /\ \A i \in DOMAIN k_slots :
                   /\ k_slots[i].start % 60 \in {0, 30}
                   /\ 9 <= hour(k_slots[i].start) /\ hour(k_slots[i].start) < 18
                   /\ k_slots[i].end = k_slots[i].start + 30
                   /\ RoundedStart(k_now) <= k_slots[i].start
                   /\ k_slots[i].end <= k_now + 3 * DayMinutes
                   /\ \A e \in k_cal :
                         ~(/\ k_slots[i].start < e.end + ISTOffset
                           /\ k_slots[i].end > e.start + ISTOffset)
             /\ \A i, j \in DOMAIN k_slots :
                   i < j => k_slots[i].start < k_slots[j].start

====
